---------------------------- MODULE Spec2Model ----------------------------
(***************************************************************************)
(* Model of the allocation engine of lab_scheduler (src/app.py): the       *)
(* request / reservation tables, the group resolver, the single-request    *)
(* assignment, the batch scheduler, the administrative overrides and the   *)
(* startup backfill.                                                       *)
(*                                                                         *)
(* The database is the program's state.  A sequential operation (one HTTP  *)
(* handler run to its commit) is one action.  The specification SpecConc   *)
(* splits the reservation-creating handlers at their database round trips, *)
(* so that two handlers can interleave between a read and the insert that  *)
(* rests on it.                                                            *)
(***************************************************************************)
EXTENDS Integers, Sequences, FiniteSets, TLC

(***************************************************************************)
(* Bounds of the model.                                                    *)
(***************************************************************************)
MaxReq == 2          \* request ids are 1..MaxReq
MaxDate == 2         \* dates are day numbers 1..MaxDate
MaxPeriod == 2       \* periods submitted are 1..MaxPeriod
MaxInactive == 1     \* labs switched off at one time
MaxBatchReq == 3     \* SpecBatch: request ids are 1..MaxBatchReq
MaxExplainReq == 5   \* SpecExplain: request ids are 1..MaxExplainReq
MaxExplainDate == 3  \* SpecExplain: dates submitted are 1..MaxExplainDate
MaxDayWindow == 2    \* SpecExplain: day_window is 0..MaxDayWindow
MaxTopK == 3         \* SpecExplain: top_k is 0..MaxTopK
MaxResolveReq == 1   \* SpecResolve: request rows on file at startup

(***************************************************************************)
(* The catalog: labs and teachers.  Lab 1 and lab 2 are in the default     *)
(* group, lab 3 in another one.  LabName is the rank of the lab's name in  *)
(* ascending order; it differs from the id order, as it does when an       *)
(* administrator adds "... 2" before "... 1".  Teacher 1 has a standing    *)
(* preferred lab (init_default_users gives the seeded teacher one),        *)
(* teacher 2 has none.                                                     *)
(***************************************************************************)
NoLab == 0
NoGroup == ""
DefaultGroup == "Tin hoc"
OtherGroup == "Vat ly"
Labs == {1, 2, 3}
LabGroup == <<DefaultGroup, DefaultGroup, OtherGroup>>
LabName == <<2, 1, 3>>
Teachers == {1, 2}
\* The standing preferred lab of each teacher account; the third account,
\* which prefers the lab of the other group, signs in under SpecResolve only.
TeacherPref == <<1, NoLab, 3>>
Accounts == DOMAIN TeacherPref
Groups == {DefaultGroup, OtherGroup}
Dates == 1..MaxDate
Periods == 1..MaxPeriod
Statuses == {"pending", "approved", "scheduled", "conflict"}

VARIABLES
    reqs,        \* table lab_request: request id -> row
    resv,        \* table reservation: a set of rows
    labActive,   \* Lab.is_active, per lab
    teachers,    \* the teacher accounts that exist
    phase,       \* "boot" before setup_app has run, "serving" after
    workers      \* SpecConc: the handlers in flight, per worker

vars == <<reqs, resv, labActive, teachers, phase, workers>>

(***************************************************************************)
(* The database as one value, so that the operations are functions of it.  *)
(***************************************************************************)
DB == [reqs |-> reqs, resv |-> resv, active |-> labActive, teachers |-> teachers]

Max(S) == CHOOSE x \in S : \A y \in S : y <= x

Min(S) == CHOOSE x \in S : \A y \in S : x <= y

ReqIds(db) == DOMAIN db.reqs

\* The rows of reservation that reference request r.
ReservationsOf(db, r) == {x \in db.resv : x.request_id = r}

\* A reservation row.  Reservation.id is kept only as far as it tells rows of
\* equal content apart: copy is 1 for the first row with these columns, 2 for
\* a second one, and so on.
Row(l, r, d, p, c) ==
    [lab_id |-> l, request_id |-> r, date |-> d, period |-> p, copy |-> c]

NewRow(db, l, r, d, p) ==
    Row(l, r, d, p, Min({c \in 1..(Cardinality(db.resv) + 1) :
                            Row(l, r, d, p, c) \notin db.resv}))

\* lab_request.reservation (uselist=False): one of the rows that reference r,
\* the first the query returns.
FirstReservationOf(db, r) ==
    CHOOSE x \in ReservationsOf(db, r) :
        \A y \in ReservationsOf(db, r) :
            \/ LabName[x.lab_id] < LabName[y.lab_id]
            \/ x.lab_id = y.lab_id /\ x.copy <= y.copy

\* db.session.get(Lab, id): whether the row exists.
LabExists(l) == l \in Labs


(***************************************************************************)
(* GroupResolver: _infer_req_group.                                        *)
(***************************************************************************)
\* req.teacher.preferred_lab_id, None when the teacher row is gone.
TeacherPrefOf(db, req) ==
    IF req.teacher_id \in db.teachers THEN TeacherPref[req.teacher_id] ELSE NoLab

\* Mutant of infer_req_group: the teacher's standing preference is asked
\* before the request's own.
infer_req_group_TeacherFirst(db, req) ==
    IF req.lab_group # NoGroup
    THEN req.lab_group
    ELSE IF /\ TeacherPrefOf(db, req) # NoLab
            /\ LabExists(TeacherPrefOf(db, req))
            /\ LabGroup[TeacherPrefOf(db, req)] # NoGroup
    THEN LabGroup[TeacherPrefOf(db, req)]
    ELSE IF /\ req.preferred_lab_id # NoLab
            /\ LabExists(req.preferred_lab_id)
            /\ LabGroup[req.preferred_lab_id] # NoGroup
    THEN LabGroup[req.preferred_lab_id]
    ELSE DefaultGroup

infer_req_group(db, req) ==
    IF req.lab_group # NoGroup
    THEN req.lab_group
    ELSE IF /\ req.preferred_lab_id # NoLab
            /\ LabExists(req.preferred_lab_id)
            /\ LabGroup[req.preferred_lab_id] # NoGroup
    THEN LabGroup[req.preferred_lab_id]
    ELSE IF /\ TeacherPrefOf(db, req) # NoLab
            /\ LabExists(TeacherPrefOf(db, req))
            /\ LabGroup[TeacherPrefOf(db, req)] # NoGroup
    THEN LabGroup[TeacherPrefOf(db, req)]
    ELSE DefaultGroup

(***************************************************************************)
(* Queries of the allocator.                                               *)
(***************************************************************************)
\* order_by(Lab.name.asc()): the labs of S as a sequence, names ascending.
RECURSIVE SortByName(_)
SortByName(S) ==
    IF S = {} THEN <<>>
    ELSE LET l == CHOOSE x \in S : \A y \in S : LabName[x] <= LabName[y]
         IN  <<l>> \o SortByName(S \ {l})

\* Mutant of ActiveLabs: the labs of the group, switched on or off.
ActiveLabs_IgnoresActive(db, g) == SortByName({l \in Labs : LabGroup[l] = g})

\* Lab.query.filter_by(is_active=True, subject_group=g).order_by(Lab.name.asc())
ActiveLabs(db, g) == SortByName({l \in Labs : db.active[l] /\ LabGroup[l] = g})

\* Mutant of OccupiedIds: the reservations of the slot are not seen.
OccupiedIds_None(db, d, p, g) == {}

\* The lab ids reserved at (d, p) among the labs of group g.
OccupiedIds(db, d, p, g) ==
    {x.lab_id : x \in {y \in db.resv : /\ y.date = d
                                       /\ y.period = p
                                       /\ LabExists(y.lab_id)
                                       /\ LabGroup[y.lab_id] = g}}

\* Mutant of EffectivePref: the teacher's standing preference is forgotten.
EffectivePref_OwnOnly(db, req) == req.preferred_lab_id

\* req.preferred_lab_id or (req.teacher.preferred_lab_id if req.teacher else None)
EffectivePref(db, req) ==
    IF req.preferred_lab_id # NoLab THEN req.preferred_lab_id ELSE TeacherPrefOf(db, req)

\* Mutant of PreferencePass: the occupancy of the preferred lab is not looked at.
PreferencePass_IgnoresOccupied(db, req, g, occupied) ==
    LET pref == EffectivePref(db, req)
    IN  IF pref # NoLab /\ LabExists(pref) /\ db.active[pref] /\ LabGroup[pref] = g
        THEN pref
        ELSE NoLab

\* Mutant of PreferencePass: the group of the preferred lab is not looked at.
PreferencePass_IgnoresGroup(db, req, g, occupied) ==
    LET pref == EffectivePref(db, req)
    IN  IF pref # NoLab /\ LabExists(pref) /\ db.active[pref] /\ pref \notin occupied
        THEN pref
        ELSE NoLab

\* Mutant of PreferencePass: when the request's own preferred lab cannot be
\* taken, the teacher's standing preference is tried next.
PreferencePass_TeacherNext(db, req, g, occupied) ==
    LET Usable(l) == /\ l # NoLab /\ LabExists(l) /\ db.active[l]
                     /\ LabGroup[l] = g /\ l \notin occupied
    IN  IF Usable(req.preferred_lab_id) THEN req.preferred_lab_id
        ELSE IF Usable(TeacherPrefOf(db, req)) THEN TeacherPrefOf(db, req)
        ELSE NoLab

\* The preference pass: the preferred lab when it is active, in the group and free.
PreferencePass(db, req, g, occupied) ==
    LET pref == EffectivePref(db, req)
    IN  IF /\ pref # NoLab
           /\ LabExists(pref)
           /\ db.active[pref]
           /\ LabGroup[pref] = g
           /\ pref \notin occupied
        THEN pref
        ELSE NoLab

\* Mutant of FallbackPass: only the first lab of the list is tried.
FallbackPass_FirstOnly(labs, occupied) ==
    IF labs = <<>> \/ labs[1] \in occupied THEN NoLab ELSE labs[1]

\* Mutant of FallbackPass: the free lab of the lowest id is taken.
FallbackPass_LowestId(labs, occupied) ==
    LET free == {labs[i] : i \in 1..Len(labs)} \ occupied
    IN  IF free = {} THEN NoLab ELSE Min(free)

\* The fallback pass: the first lab of the name-ordered list that is free.
FallbackPass(labs, occupied) ==
    LET free == {i \in 1..Len(labs) : labs[i] \notin occupied}
    IN  IF free = {} THEN NoLab ELSE labs[Min(free)]

\* Mutant of ChooseLab: without a preferred lab that can be taken, none is.
ChooseLab_NoFallback(db, req, g) ==
    IF ActiveLabs(db, g) = <<>> THEN NoLab
    ELSE PreferencePass(db, req, g, OccupiedIds(db, req.date, req.period, g))

\* Lines 408-435: the lab chosen for req in group g against the reservations
\* of db, NoLab when there is none.
ChooseLab(db, req, g) ==
    LET labs == ActiveLabs(db, g)
        occupied == OccupiedIds(db, req.date, req.period, g)
        preferred == PreferencePass(db, req, g, occupied)
    IN  IF labs = <<>> THEN NoLab
        ELSE IF preferred # NoLab THEN preferred
        ELSE FallbackPass(labs, occupied)

\* Mutant of PersistGroup: the resolved group is not written to the row.
PersistGroup_Skip(db, r, g) == db

\* req.lab_group = req_group; db.session.flush()
PersistGroup(db, r, g) == [db EXCEPT !.reqs[r].lab_group = g]

\* Mutant of Reserve: the row is written for the first date and period,
\* whatever the request asks for.
Reserve_FirstSlot(db, r, l) ==
    [db EXCEPT !.resv = @ \cup {NewRow(db, l, r, 1, 1)},
               !.reqs[r].status = "scheduled"]

\* db.session.add(Reservation(...)); req.status = "scheduled"
Reserve(db, r, l) ==
    [db EXCEPT !.resv = @ \cup {NewRow(db, l, r, db.reqs[r].date, db.reqs[r].period)},
               !.reqs[r].status = "scheduled"]

\* Mutant of assign_reservation_for_request: the already-reserved return of
\* line 401 is missing.
assign_without_short_circuit(db, r) ==
    LET g == infer_req_group(db, db.reqs[r])
        db1 == PersistGroup(db, r, g)
        chosen == ChooseLab(db1, db1.reqs[r], g)
    IN  IF chosen = NoLab
        THEN [db |-> db1, ok |-> FALSE]
        ELSE [db |-> Reserve(db1, r, chosen), ok |-> TRUE]

(***************************************************************************)
(* Allocator: _assign_reservation_for_request.  The result is the database *)
(* after the call and the value returned.                                  *)
(***************************************************************************)
assign_reservation_for_request(db, r) ==
    IF ReservationsOf(db, r) # {}
    THEN [db |-> db, ok |-> TRUE]
    ELSE LET g == infer_req_group(db, db.reqs[r])
             db1 == PersistGroup(db, r, g)
             chosen == ChooseLab(db1, db1.reqs[r], g)
         IN  IF chosen = NoLab
             THEN [db |-> db1, ok |-> FALSE]
             ELSE [db |-> Reserve(db1, r, chosen), ok |-> TRUE]

\* req.status = "conflict"
SetStatus(db, r, s) == [db EXCEPT !.reqs[r].status = s]

(***************************************************************************)
(* Batch scheduler: run_auto_schedule.                                     *)
(***************************************************************************)
\* The first component of the sort key: 0 with a preference signal, 1 without.
PrefTier(db, req) ==
    IF req.preferred_lab_id # NoLab \/ TeacherPrefOf(db, req) # NoLab THEN 0 ELSE 1

\* Mutant of KeyLeq: the sort key is created_at alone.
KeyLeq_CreatedOnly(db, a, b) == db.reqs[a].created_at <= db.reqs[b].created_at

\* Whether key (tier, created_at) of a is at most that of b.
KeyLeq(db, a, b) ==
    \/ PrefTier(db, db.reqs[a]) < PrefTier(db, db.reqs[b])
    \/ /\ PrefTier(db, db.reqs[a]) = PrefTier(db, db.reqs[b])
       /\ db.reqs[a].created_at <= db.reqs[b].created_at

\* unscheduled.sort(key=...): the requests of S, keys ascending.
RECURSIVE SortByKey(_, _)
SortByKey(db, S) ==
    IF S = {} THEN <<>>
    ELSE LET r == CHOOSE x \in S : \A y \in S : KeyLeq(db, x, y)
         IN  <<r>> \o SortByKey(db, S \ {r})

\* Mutant of Unscheduled: requests in conflict are taken up again.
Unscheduled_WithConflict(db) ==
    SortByKey(db, {r \in ReqIds(db) :
                       db.reqs[r].status \in {"pending", "approved", "conflict"}})

\* LabRequest.query.filter(status in (pending, approved)), sorted.
Unscheduled(db) ==
    SortByKey(db, {r \in ReqIds(db) : db.reqs[r].status \in {"pending", "approved"}})

\* The requests in id order (a query without ORDER BY).
RECURSIVE SortById(_)
SortById(S) ==
    IF S = {} THEN <<>> ELSE <<Min(S)>> \o SortById(S \ {Min(S)})

\* Mutant of ConflictOnFailure: a failed request also clears its slot of the
\* reservations that stood in its way.
ConflictOnFailure_Preempt(db, r, ok) ==
    IF ok THEN db
    ELSE [db EXCEPT !.reqs[r].status = "conflict",
                    !.resv = {x \in @ : ~(x.date = db.reqs[r].date
                                          /\ x.period = db.reqs[r].period)}]

\* Mutant of ConflictOnFailure: a failed assignment leaves the status as it was.
ConflictOnFailure_Skip(db, r, ok) == db

\* if not ok: req.status = "conflict"
ConflictOnFailure(db, r, ok) == IF ok THEN db ELSE SetStatus(db, r, "conflict")

\* Mutant of LoopStep: after a first failure the rest of the batch is left alone.
LoopStep_StopAfterFailure(acc, r) ==
    IF acc.failed # {} \/ ReservationsOf(acc.db, r) # {}
    THEN acc
    ELSE LET a == assign_reservation_for_request(acc.db, r)
         IN  [db |-> ConflictOnFailure(a.db, r, a.ok),
              assigned |-> IF a.ok THEN acc.assigned \cup {r} ELSE acc.assigned,
              failed |-> IF a.ok THEN acc.failed ELSE acc.failed \cup {r}]

\* One turn of the loop "for req in ...": skip a request that has a
\* reservation, else assign it and mark the failure.  acc carries the
\* database and the requests whose assignment succeeded and failed.
LoopStep(acc, r) ==
    IF ReservationsOf(acc.db, r) # {}
    THEN acc
    ELSE LET a == assign_reservation_for_request(acc.db, r)
         IN  [db |-> ConflictOnFailure(a.db, r, a.ok),
              assigned |-> IF a.ok THEN acc.assigned \cup {r} ELSE acc.assigned,
              failed |-> IF a.ok THEN acc.failed ELSE acc.failed \cup {r}]

RECURSIVE Loop(_, _, _)
Loop(acc, order, i) ==
    IF i > Len(order) THEN acc ELSE Loop(LoopStep(acc, order[i]), order, i + 1)

\* What a function without a return statement hands back.
None == [kind |-> "None"]

\* db is the store after the commit; assigned and failed record which
\* requests the loop placed and which it marked (the code keeps no such
\* tally); ret is the value handed to the caller: the body ends at the commit.
run_auto_schedule(db) ==
    LET acc == Loop([db |-> db, assigned |-> {}, failed |-> {}], Unscheduled(db), 1)
    IN  [db |-> acc.db, assigned |-> acc.assigned, failed |-> acc.failed, ret |-> None]

(***************************************************************************)
(* Startup backfill: ensure_reservations_for_scheduled_requests.           *)
(***************************************************************************)
ScheduledReqs(db) == SortById({r \in ReqIds(db) : db.reqs[r].status = "scheduled"})

\* One turn of the backfill loop: the same skip, assign and mark.
BackfillStep(acc, r) ==
    IF ReservationsOf(acc.db, r) # {}
    THEN acc
    ELSE LET a == assign_reservation_for_request(acc.db, r)
         IN  [db |-> ConflictOnFailure(a.db, r, a.ok),
              assigned |-> IF a.ok THEN acc.assigned \cup {r} ELSE acc.assigned,
              failed |-> IF a.ok THEN acc.failed ELSE acc.failed \cup {r}]

RECURSIVE BackfillLoop(_, _, _)
BackfillLoop(acc, order, i) ==
    IF i > Len(order) THEN acc
    ELSE BackfillLoop(BackfillStep(acc, order[i]), order, i + 1)

ensure_reservations_for_scheduled_requests(db) ==
    BackfillLoop([db |-> db, assigned |-> {}, failed |-> {}], ScheduledReqs(db), 1)

(***************************************************************************)
(* Administrative overrides: update_request_status, manual_assign.         *)
(***************************************************************************)
\* Mutant of DeleteReservationOf: the reservation is not deleted.
DeleteReservationOf_Skip(db, r) == db

\* if lab_request.reservation: db.session.delete(lab_request.reservation)
DeleteReservationOf(db, r) ==
    IF ReservationsOf(db, r) = {} THEN db
    ELSE [db EXCEPT !.resv = @ \ {FirstReservationOf(db, r)}]

\* Mutant of update_request_status: the override away from "scheduled" leaves
\* the reservation in place.
update_request_status_KeepsReservation(db, r, s) ==
    IF s = "scheduled"
    THEN LET a == assign_reservation_for_request(db, r)
         IN  [db |-> ConflictOnFailure(a.db, r, a.ok),
              res |-> IF a.ok THEN "Assigned" ELSE "NoEligibleResource"]
    ELSE [db |-> SetStatus(db, r, s), res |-> "Updated"]

update_request_status(db, r, s) ==
    IF s = "scheduled"
    THEN LET a == assign_reservation_for_request(db, r)
         IN  [db |-> ConflictOnFailure(a.db, r, a.ok),
              res |-> IF a.ok THEN "Assigned" ELSE "NoEligibleResource"]
    ELSE [db |-> SetStatus(DeleteReservationOf(db, r), r, s), res |-> "Updated"]

\* Reservation.query.filter_by(lab_id=..., date=..., period=...).first()
SlotTaken(db, l, d, p) ==
    \E x \in db.resv : x.lab_id = l /\ x.date = d /\ x.period = p

\* Mutant of manual_assign: the group check of lines 859-862 is missing.
manual_assign_NoGroupCheck(db, r, l) ==
    IF ~LabExists(l) \/ ~db.active[l]
    THEN [db |-> db, res |-> "ResourceInactive"]
    ELSE IF SlotTaken(db, l, db.reqs[r].date, db.reqs[r].period)
    THEN [db |-> db, res |-> "SlotTaken"]
    ELSE [db |-> Reserve(DeleteReservationOf(db, r), r, l), res |-> "Assigned"]

\* Mutant of manual_assign: is_active is not looked at.
manual_assign_NoActiveCheck(db, r, l) ==
    IF ~LabExists(l)
    THEN [db |-> db, res |-> "ResourceInactive"]
    ELSE IF LabGroup[l] # infer_req_group(db, db.reqs[r])
    THEN [db |-> db, res |-> "GroupMismatch"]
    ELSE IF SlotTaken(db, l, db.reqs[r].date, db.reqs[r].period)
    THEN [db |-> db, res |-> "SlotTaken"]
    ELSE [db |-> Reserve(DeleteReservationOf(db, r), r, l), res |-> "Assigned"]

\* Mutant of manual_assign: the reservation the request holds is kept.
manual_assign_KeepsOld(db, r, l) ==
    IF ~LabExists(l) \/ ~db.active[l]
    THEN [db |-> db, res |-> "ResourceInactive"]
    ELSE IF LabGroup[l] # infer_req_group(db, db.reqs[r])
    THEN [db |-> db, res |-> "GroupMismatch"]
    ELSE IF SlotTaken(db, l, db.reqs[r].date, db.reqs[r].period)
    THEN [db |-> db, res |-> "SlotTaken"]
    ELSE [db |-> Reserve(db, r, l), res |-> "Assigned"]

manual_assign(db, r, l) ==
    IF ~LabExists(l) \/ ~db.active[l]
    THEN [db |-> db, res |-> "ResourceInactive"]
    ELSE IF LabGroup[l] # infer_req_group(db, db.reqs[r])
    THEN [db |-> db, res |-> "GroupMismatch"]
    ELSE IF SlotTaken(db, l, db.reqs[r].date, db.reqs[r].period)
    THEN [db |-> db, res |-> "SlotTaken"]
    ELSE [db |-> Reserve(DeleteReservationOf(db, r), r, l), res |-> "Assigned"]

(***************************************************************************)
(* Submission: new_request.                                                *)
(***************************************************************************)
NewRequestId(db) == IF ReqIds(db) = {} THEN 1 ELSE Max(ReqIds(db)) + 1

\* existed_same: the teacher has a live request at that date and period.
ExistedSame(db, t, d, p) ==
    \E r \in ReqIds(db) : /\ db.reqs[r].teacher_id = t
                          /\ db.reqs[r].date = d
                          /\ db.reqs[r].period = p
                          /\ db.reqs[r].status \in {"pending", "approved", "scheduled"}

\* The row the form creates; its group is the preferred lab's when one is named.
NewLabRequest(db, t, g, pref, d, p) ==
    [teacher_id |-> t,
     lab_group |-> IF pref # NoLab THEN LabGroup[pref]
                   ELSE IF g = NoGroup THEN DefaultGroup ELSE g,
     date |-> d, period |-> p, status |-> "pending",
     preferred_lab_id |-> pref, created_at |-> NewRequestId(db)]

AddRow(f, k, v) == [x \in DOMAIN f \cup {k} |-> IF x = k THEN v ELSE f[x]]

new_request(db, t, g, pref, d, p) ==
    IF pref # NoLab /\ (~LabExists(pref) \/ ~db.active[pref])
    THEN [db |-> db, res |-> "InvalidPreferred"]
    ELSE IF ExistedSame(db, t, d, p)
    THEN [db |-> db, res |-> "Duplicate"]
    ELSE [db |-> [db EXCEPT !.reqs = AddRow(@, NewRequestId(db),
                                            NewLabRequest(db, t, g, pref, d, p))],
          res |-> "Created"]

(***************************************************************************)
(* Catalog administration: admin_toggle_lab, admin_delete_teacher.         *)
(***************************************************************************)
admin_toggle_lab(db, l) == [db EXCEPT !.active[l] = ~@]

RequestsOfTeacher(db, t) == {r \in ReqIds(db) : db.reqs[r].teacher_id = t}

\* Mutant of admin_delete_teacher: the requests go, their reservations stay.
admin_delete_teacher_KeepsRows(db, t) ==
    [db EXCEPT !.reqs = [r \in {x \in ReqIds(db) : db.reqs[x].teacher_id # t} |-> db.reqs[r]],
               !.teachers = @ \ {t}]

\* for req in teacher.lab_requests: delete its reservation, then the request.
admin_delete_teacher(db, t) ==
    LET gone == RequestsOfTeacher(db, t)
        rows == {FirstReservationOf(db, r) : r \in {x \in gone : ReservationsOf(db, x) # {}}}
    IN  [db EXCEPT !.reqs = [r \in ReqIds(db) \ gone |-> db.reqs[r]],
                   !.resv = @ \ rows,
                   !.teachers = @ \ {t}]

(***************************************************************************)
(* Explainer: ai_explain_conflict_and_suggest.  The function reads the     *)
(* tables and writes nothing; its result is the dictionary it returns.     *)
(***************************************************************************)
\* The arguments the route api_ai_conflict passes (line 898).
ApiMaxPeriod == 10
ApiDayWindow == 7
ApiTopK == 3

\* Mutant of CandidateDate: the days after the request's are never looked at.
CandidateDate_EarlierOnly(d0, i) == d0 - (i \div 2)

\* Mutant of CandidateDate: the later date of a distance comes first.
CandidateDate_LaterFirst(d0, i) ==
    IF i = 1 THEN d0 ELSE IF i % 2 = 0 THEN d0 + (i \div 2) ELSE d0 - (i \div 2)

\* The i-th date of the two outer loops (delta_days in 0..day_window, sign 0
\* for delta 0, else -1 then +1): d0, d0-1, d0+1, d0-2, d0+2, ...
CandidateDate(d0, i) ==
    IF i = 1 THEN d0 ELSE IF i % 2 = 0 THEN d0 - (i \div 2) ELSE d0 + (i \div 2)

\* Mutant of FreeLabsAt: the reservations of the candidate slot are not seen.
FreeLabsAt_IgnoresOccupied(db, labs, g, d, p) == labs

\* free_labs: the labs of the name-ordered list that have no reservation at (d, p).
FreeLabsAt(db, labs, g, d, p) ==
    LET occupied_ids == OccupiedIds(db, d, p, g)
        IsFree(l) == l \notin occupied_ids
    IN  SelectSeq(labs, IsFree)

\* [lab.name for lab in free_labs][:3]
FirstThree(names) == SubSeq(names, 1, Min({3, Len(names)}))

\* The period loop of lines 521-541 for date d, from period p on.  acc holds
\* the suggestions collected so far and the number of (date, period) pairs
\* whose occupancy has been queried (lines 525-530).  The own slot is passed
\* over by `continue`, which also passes over the length test at the end of
\* the loop body.
RECURSIVE ScanPeriods(_, _, _, _)
ScanPeriods(ctx, d, p, acc) ==
    IF p > ctx.max_period THEN acc
    ELSE IF d = ctx.req.date /\ p = ctx.req.period
    THEN ScanPeriods(ctx, d, p + 1, acc)
    ELSE LET free_labs == FreeLabsAt(ctx.db, ctx.labs, ctx.group, d, p)
             found == [suggestions |->
                           IF free_labs # <<>>
                           THEN Append(acc.suggestions,
                                       [date |-> d, period |-> p,
                                        free_lab_names |-> FirstThree(free_labs)])
                           ELSE acc.suggestions,
                       examined |-> acc.examined + 1]
         IN  IF Len(found.suggestions) >= ctx.top_k THEN found
             ELSE ScanPeriods(ctx, d, p + 1, found)

\* Mutant of ScanDates: the date loops run one day further on either side.
RECURSIVE ScanDates_WiderWindow(_, _, _)
ScanDates_WiderWindow(ctx, i, acc) ==
    IF i > 2 * (ctx.day_window + 1) + 1 THEN acc
    ELSE LET found == ScanPeriods(ctx, CandidateDate(ctx.req.date, i), 1, acc)
         IN  IF Len(found.suggestions) >= ctx.top_k THEN found
             ELSE ScanDates_WiderWindow(ctx, i + 1, found)

\* The two date loops of lines 517-545 from date index i on; the length test
\* after the period loop ends both.
RECURSIVE ScanDates(_, _, _)
ScanDates(ctx, i, acc) ==
    IF i > 2 * ctx.day_window + 1 THEN acc
    ELSE LET found == ScanPeriods(ctx, CandidateDate(ctx.req.date, i), 1, acc)
         IN  IF Len(found.suggestions) >= ctx.top_k THEN found
             ELSE ScanDates(ctx, i + 1, found)

\* Lines 509-545 for request r: the group, the labs and the search.
ExplainScan(db, r, max_period, day_window, top_k) ==
    LET req == db.reqs[r]
        subject_group == infer_req_group(db, req)
        ctx == [db |-> db, req |-> req, group |-> subject_group,
                labs |-> ActiveLabs(db, subject_group), max_period |-> max_period,
                day_window |-> day_window, top_k |-> top_k]
    IN  ScanDates(ctx, 1, [suggestions |-> <<>>, examined |-> 0])

\* _get_occupied_details: the reservations of the slot on labs of the group,
\* each with its lab, its request and the request's teacher.
get_occupied_details(db, d, p, g) ==
    {[lab_id |-> x.lab_id, request_id |-> x.request_id,
      teacher_id |-> db.reqs[x.request_id].teacher_id] :
        x \in {y \in db.resv : /\ y.date = d /\ y.period = p
                                /\ LabExists(y.lab_id) /\ LabGroup[y.lab_id] = g
                                /\ y.request_id \in ReqIds(db)
                                /\ db.reqs[y.request_id].teacher_id \in db.teachers}}

\* The dictionary returned.
ExplainOut(db, r, max_period, day_window, top_k) ==
    IF r \notin ReqIds(db)
    THEN [ok |-> FALSE]
    ELSE LET req == db.reqs[r]
             subject_group == infer_req_group(db, req)
         IN  [ok |-> TRUE,
              req |-> [id |-> r, date |-> req.date, period |-> req.period,
                       lab_group |-> subject_group],
              occupied |-> get_occupied_details(db, req.date, req.period, subject_group),
              suggestions |-> ExplainScan(db, r, max_period, day_window, top_k).suggestions]

\* Mutant of ai_explain_conflict_and_suggest: the resolved group is stored on
\* the request, as the allocator does.
explain_and_persist_group(db, r, max_period, day_window, top_k) ==
    [db |-> IF r \in ReqIds(db)
            THEN PersistGroup(db, r, infer_req_group(db, db.reqs[r]))
            ELSE db,
     out |-> ExplainOut(db, r, max_period, day_window, top_k)]

\* The database after the call, and the dictionary.
ai_explain_conflict_and_suggest(db, r, max_period, day_window, top_k) ==
    [db |-> db, out |-> ExplainOut(db, r, max_period, day_window, top_k)]

\* The number of (date, period) pairs the call queries the occupancy of.
Examined(db, r, max_period, day_window, top_k) ==
    IF r \notin ReqIds(db) THEN 0
    ELSE ExplainScan(db, r, max_period, day_window, top_k).examined

(***************************************************************************)
(* The state machine.  Init is the database as setup_app finds it: empty,  *)
(* or written by an earlier version of the application that recorded a     *)
(* status without reservation rows (the case the backfill exists for).     *)
(***************************************************************************)
NoSuchLab == Cardinality(Labs) + 1

LegacyRows ==
    [teacher_id : Teachers, lab_group : Groups \cup {NoGroup}, date : {1},
     period : {1}, status : {"pending", "scheduled"}, preferred_lab_id : {NoLab},
     created_at : {0}]

\* The tables an earlier version can have left: rows created in id order, no
\* teacher with two live requests in one slot.
LegacyReqs ==
    {f \in UNION {[1..n -> LegacyRows] : n \in 0..MaxReq} :
        \A i, j \in DOMAIN f : i # j => f[i].teacher_id # f[j].teacher_id}

Stamp(f) == [i \in DOMAIN f |-> [f[i] EXCEPT !.created_at = i]]

Idle == [pc |-> "idle", req |-> 0, lab |-> NoLab, group |-> NoGroup,
         todo |-> <<>>, kind |-> "none"]

Install(db) ==
    /\ reqs' = db.reqs
    /\ resv' = db.resv
    /\ labActive' = db.active
    /\ teachers' = db.teachers

Init ==
    /\ reqs \in {Stamp(f) : f \in LegacyReqs}
    /\ resv = {}
    /\ labActive = [l \in Labs |-> TRUE]
    /\ teachers = Teachers
    /\ phase = "boot"
    /\ workers = [w \in {1, 2} |-> Idle]

Quiet == phase = "serving" /\ \A w \in DOMAIN workers : workers[w].pc = "idle"

\* setup_app: the backfill runs once, before any handler.
SetupApp ==
    /\ phase = "boot"
    /\ Install(ensure_reservations_for_scheduled_requests(DB).db)
    /\ phase' = "serving"
    /\ UNCHANGED workers

DoNewRequest(t, g, pref, d, p) ==
    /\ Quiet
    /\ t \in teachers
    /\ NewRequestId(DB) <= MaxReq
    /\ Install(new_request(DB, t, g, pref, d, p).db)
    /\ UNCHANGED <<phase, workers>>

DoAutoSchedule ==
    /\ Quiet
    /\ Install(run_auto_schedule(DB).db)
    /\ UNCHANGED <<phase, workers>>

DoUpdateRequestStatus(r, s) ==
    /\ Quiet
    /\ r \in ReqIds(DB)
    /\ Install(update_request_status(DB, r, s).db)
    /\ UNCHANGED <<phase, workers>>

DoManualAssign(r, l) ==
    /\ Quiet
    /\ r \in ReqIds(DB)
    /\ Install(manual_assign(DB, r, l).db)
    /\ UNCHANGED <<phase, workers>>

DoToggleLab(l) ==
    /\ Quiet
    /\ labActive[l] => Cardinality({x \in Labs : ~labActive[x]}) < MaxInactive
    /\ Install(admin_toggle_lab(DB, l))
    /\ UNCHANGED <<phase, workers>>

DoDeleteTeacher(t) ==
    /\ Quiet
    /\ t \in teachers
    /\ Install(admin_delete_teacher(DB, t))
    /\ UNCHANGED <<phase, workers>>

Next ==
    \/ SetupApp
    \/ \E t \in Teachers, g \in Groups \cup {NoGroup}, pref \in Labs \cup {NoLab},
          d \in Dates, p \in Periods : DoNewRequest(t, g, pref, d, p)
    \/ DoAutoSchedule
    \/ \E r \in 1..MaxReq, s \in Statuses : DoUpdateRequestStatus(r, s)
    \/ \E r \in 1..MaxReq, l \in Labs \cup {NoSuchLab} : DoManualAssign(r, l)
    \/ \E l \in Labs : DoToggleLab(l)
    \/ \E t \in Teachers : DoDeleteTeacher(t)

Spec == Init /\ [][Next]_vars

(***************************************************************************)
(* Two handlers in flight.  No handler takes a lock and the reservation    *)
(* table has no unique constraint (lines 136-145), so the statements of    *)
(* two handlers interleave freely.  A handler is cut where it goes back to *)
(* the database: after the already-reserved check (line 401 or 449), after *)
(* the occupancy read and the choice of a lab (lines 408-435), and at the  *)
(* insert (line 437, or 872 for manual_assign).                            *)
(***************************************************************************)
InitConc ==
    /\ reqs = <<>>
    /\ resv = {}
    /\ labActive = [l \in Labs |-> TRUE]
    /\ teachers = Teachers
    /\ phase = "serving"
    /\ workers = [w \in {1, 2} |-> Idle]

\* The handler of worker w returns, or goes on with the rest of its batch.
Finish(w) ==
    workers' = [workers EXCEPT ![w] =
                   IF @.kind = "batch"
                   THEN [Idle EXCEPT !.pc = "batch", !.kind = "batch", !.todo = workers[w].todo]
                   ELSE Idle]

\* Lines 401-406 for request r: return when r has a reservation, else resolve
\* the group and store it.
BeginAssign(w, r, kind, todo) ==
    IF ReservationsOf(DB, r) # {}
    THEN /\ workers' = [workers EXCEPT ![w] =
                           IF kind = "batch"
                           THEN [Idle EXCEPT !.pc = "batch", !.kind = kind, !.todo = todo]
                           ELSE Idle]
         /\ UNCHANGED <<reqs, resv, labActive, teachers>>
    ELSE /\ Install(PersistGroup(DB, r, infer_req_group(DB, reqs[r])))
         /\ workers' = [workers EXCEPT ![w] =
                           [pc |-> "assign_read", req |-> r, lab |-> NoLab,
                            group |-> infer_req_group(DB, reqs[r]),
                            todo |-> todo, kind |-> kind]]

\* update_request_status(r, "scheduled") up to its first return to the database.
StatusBegin(w, r) ==
    /\ phase = "serving"
    /\ workers[w].pc = "idle"
    /\ r \in ReqIds(DB)
    /\ BeginAssign(w, r, "single", <<>>)
    /\ UNCHANGED phase

\* run_auto_schedule, lines 443-446: the query and the sort.
BatchBegin(w) ==
    /\ phase = "serving"
    /\ workers[w].pc = "idle"
    /\ workers' = [workers EXCEPT ![w] =
                      [Idle EXCEPT !.pc = "batch", !.kind = "batch", !.todo = Unscheduled(DB)]]
    /\ UNCHANGED <<reqs, resv, labActive, teachers, phase>>

\* The head of the loop, lines 448-452, and the commit at its end.
BatchNext(w) ==
    /\ workers[w].pc = "batch"
    /\ IF workers[w].todo = <<>>
       THEN /\ workers' = [workers EXCEPT ![w] = Idle]
            /\ UNCHANGED <<reqs, resv, labActive, teachers>>
       ELSE BeginAssign(w, Head(workers[w].todo), "batch", Tail(workers[w].todo))
    /\ UNCHANGED phase

\* Lines 408-435: read the labs and the occupancy, choose; a failure is
\* marked by the caller (line 454 or 819).
AssignRead(w) ==
    /\ workers[w].pc = "assign_read"
    /\ LET r == workers[w].req
           chosen == ChooseLab(DB, reqs[r], workers[w].group)
       IN  IF chosen = NoLab
           THEN /\ Install(ConflictOnFailure(DB, r, FALSE))
                /\ Finish(w)
           ELSE /\ workers' = [workers EXCEPT ![w].pc = "assign_insert", ![w].lab = chosen]
                /\ UNCHANGED <<reqs, resv, labActive, teachers>>
    /\ UNCHANGED phase

\* Lines 437-438: the insert rests on the read of AssignRead.
AssignInsert(w) ==
    /\ workers[w].pc = "assign_insert"
    /\ Install(Reserve(DB, workers[w].req, workers[w].lab))
    /\ Finish(w)
    /\ UNCHANGED phase

\* manual_assign, lines 854-867: the checks.
ManualBegin(w, r, l) ==
    /\ phase = "serving"
    /\ workers[w].pc = "idle"
    /\ r \in ReqIds(DB)
    /\ IF manual_assign(DB, r, l).res = "Assigned"
       THEN workers' = [workers EXCEPT ![w] =
                           [Idle EXCEPT !.pc = "manual_insert", !.req = r, !.lab = l,
                                        !.kind = "manual"]]
       ELSE UNCHANGED workers
    /\ UNCHANGED <<reqs, resv, labActive, teachers, phase>>

\* manual_assign, lines 869-874: the delete and the insert.
ManualInsert(w) ==
    /\ workers[w].pc = "manual_insert"
    /\ Install(Reserve(DeleteReservationOf(DB, workers[w].req), workers[w].req,
                       workers[w].lab))
    /\ Finish(w)
    /\ UNCHANGED phase

\* Submissions of SpecConc: no preferred lab, one slot.
SubmitConc(t, g) == DoNewRequest(t, g, NoLab, 1, 1)

NextConc ==
    \/ \E t \in Teachers, g \in Groups : SubmitConc(t, g)
    \/ \E w \in {1, 2}, r \in 1..MaxReq : StatusBegin(w, r)
    \/ \E w \in {1, 2} : BatchBegin(w)
    \/ \E w \in {1, 2} : BatchNext(w)
    \/ \E w \in {1, 2} : AssignRead(w)
    \/ \E w \in {1, 2} : AssignInsert(w)
    \/ \E w \in {1, 2}, r \in 1..MaxReq, l \in Labs : ManualBegin(w, r, l)
    \/ \E w \in {1, 2} : ManualInsert(w)

SpecConc == InitConc /\ [][NextConc]_vars

(***************************************************************************)
(* The batch over a longer backlog: one slot, requests without a preferred *)
(* lab of their own, up to MaxBatchReq of them.  A teacher gets a second   *)
(* request for the slot once the first one is in conflict (existed_same    *)
(* looks at pending, approved and scheduled only), and an override brings  *)
(* the first one back into the backlog.                                    *)
(***************************************************************************)
SubmitBatch(t, g) ==
    /\ Quiet
    /\ t \in teachers
    /\ NewRequestId(DB) <= MaxBatchReq
    /\ Install(new_request(DB, t, g, NoLab, 1, 1).db)
    /\ UNCHANGED <<phase, workers>>

NextBatch ==
    \/ \E t \in Teachers, g \in Groups : SubmitBatch(t, g)
    \/ DoAutoSchedule
    \/ \E r \in 1..MaxBatchReq, s \in Statuses : DoUpdateRequestStatus(r, s)
    \/ \E l \in Labs : DoToggleLab(l)

SpecBatch == InitConc /\ [][NextBatch]_vars

(***************************************************************************)
(* The explainer over a fuller calendar: one teacher without a standing    *)
(* preference books the one lab of OtherGroup at up to MaxExplainReq slots *)
(* of MaxExplainDate days, the batch runs, and                             *)
(* ai_explain_conflict_and_suggest is called with arguments of its own.    *)
(***************************************************************************)
ExplainTeacher == CHOOSE t \in Teachers : TeacherPref[t] = NoLab
ExplainLab == CHOOSE l \in Labs : LabGroup[l] = OtherGroup

SubmitExplain(d, p) ==
    /\ Quiet
    /\ ExplainTeacher \in teachers
    /\ NewRequestId(DB) <= MaxExplainReq
    /\ Install(new_request(DB, ExplainTeacher, LabGroup[ExplainLab], NoLab, d, p).db)
    /\ UNCHANGED <<phase, workers>>

\* api_ai_conflict: 404 for an unknown request, else the explanation.
ExplainWith(r, max_period, day_window, top_k) ==
    /\ Quiet
    /\ r \in ReqIds(DB)
    /\ Install(ai_explain_conflict_and_suggest(DB, r, max_period, day_window, top_k).db)
    /\ UNCHANGED <<phase, workers>>

NextExplain ==
    \/ \E d \in 1..MaxExplainDate, p \in Periods : SubmitExplain(d, p)
    \/ DoAutoSchedule
    \/ \E r \in 1..MaxExplainReq, max_period \in 0..MaxPeriod,
          day_window \in 0..MaxDayWindow, top_k \in 0..MaxTopK :
              ExplainWith(r, max_period, day_window, top_k)

SpecExplain == InitConc /\ [][NextExplain]_vars

(***************************************************************************)
(* The resolver on rows of every shape: request rows left by an earlier    *)
(* version or written past the form, with or without a group tag, with no  *)
(* preferred lab, a preferred lab of either group or one that is gone, of  *)
(* teachers with and without a standing preference.                        *)
(***************************************************************************)
ResolveRows ==
    [teacher_id : Accounts, lab_group : Groups \cup {NoGroup}, date : {1},
     period : {1}, status : {"pending", "scheduled"},
     preferred_lab_id : Labs \cup {NoLab, NoSuchLab}, created_at : {0}]

InitResolve ==
    /\ reqs \in {Stamp(f) : f \in UNION {[1..n -> ResolveRows] : n \in 0..MaxResolveReq}}
    /\ resv = {}
    /\ labActive = [l \in Labs |-> TRUE]
    /\ teachers = Accounts
    /\ phase = "boot"
    /\ workers = [w \in {1, 2} |-> Idle]

NextResolve ==
    \/ SetupApp
    \/ DoAutoSchedule
    \/ \E r \in 1..MaxResolveReq, s \in Statuses : DoUpdateRequestStatus(r, s)
    \/ \E r \in 1..MaxResolveReq, l \in Labs \cup {NoSuchLab} : DoManualAssign(r, l)
    \/ \E l \in Labs : DoToggleLab(l)

SpecResolve == InitResolve /\ [][NextResolve]_vars

(***************************************************************************)
(* The claims.  Their vocabulary is written out from the tables, not from  *)
(* the operators of the allocator.                                         *)
(***************************************************************************)
\* Same lab, date and period.
SameSlot(x, y) == x.lab_id = y.lab_id /\ x.date = y.date /\ x.period = y.period

\* The rows that reference request r in the current tables.
RowsOf(r) == {x \in resv : x.request_id = r}

\* The preferred lab that counts for request r: its own, else its teacher's.
ClaimedPref(r) ==
    IF reqs[r].preferred_lab_id # NoLab THEN reqs[r].preferred_lab_id
    ELSE IF reqs[r].teacher_id \in teachers THEN TeacherPref[reqs[r].teacher_id]
    ELSE NoLab

\* Whether lab l has a reservation at (d, p).
Reserved(l, d, p) == \E x \in resv : x.lab_id = l /\ x.date = d /\ x.period = p

\* The active labs of group g that are free at (d, p).
FreeLabs(g, d, p) == {l \in Labs : labActive[l] /\ LabGroup[l] = g /\ ~Reserved(l, d, p)}

\* The group request r resolves to.
GroupOf(r) == infer_req_group(DB, reqs[r])

\* The requests still to schedule.
Backlog == {r \in DOMAIN reqs : reqs[r].status \in {"pending", "approved"}}

\* C1: after any sequence of sequentially executed operations, no two
\* distinct reservations share the same (resource, date, period).
C1_SlotUniqueness == \A x, y \in resv : x # y => ~SameSlot(x, y)

\* Two requests of one slot hold two different labs of one group.
C1_Witness ==
    \E x, y \in resv : /\ x.request_id # y.request_id
                       /\ x.date = y.date /\ x.period = y.period
                       /\ x.lab_id # y.lab_id
                       /\ LabGroup[x.lab_id] = LabGroup[y.lab_id]

\* C2: once the application serves, every request with status "scheduled" is
\* referenced by exactly one reservation, and every request with status
\* pending, approved or conflict by none.
C2_OneToOneBinding ==
    phase = "serving" =>
        \A r \in DOMAIN reqs :
            Cardinality(RowsOf(r)) = IF reqs[r].status = "scheduled" THEN 1 ELSE 0

\* One request is scheduled and holds a lab, another one of the same slot and
\* group is in conflict and holds none.
C2_Witness ==
    /\ phase = "serving"
    /\ \E r, q \in DOMAIN reqs :
           /\ reqs[r].status = "scheduled" /\ Cardinality(RowsOf(r)) = 1
           /\ reqs[q].status = "conflict" /\ RowsOf(q) = {}
           /\ reqs[q].date = reqs[r].date /\ reqs[q].period = reqs[r].period
           /\ GroupOf(q) = GroupOf(r)

\* C3: two reservation-creating handlers that interleave between their
\* occupancy read and their insert never both create a reservation for the
\* same (resource, date, period).
C3_NoDoubleBooking == \A x \in resv : \A y \in resv \ {x} : ~SameSlot(x, y)

\* C4: a request has at most one reservation at any time, also when two
\* handlers process it with their already-reserved check and their insert
\* interleaved.
C4_AtMostOneReservation == \A r \in DOMAIN reqs : Cardinality(RowsOf(r)) <= 1

\* C5: assign on a request that has a reservation returns success and changes
\* nothing, and assign twice in a row leaves the state that assign once
\* leaves; the same for the status override to "scheduled", which wraps it.
C5_AssignIdempotent ==
    \A r \in DOMAIN reqs :
        LET once == assign_reservation_for_request(DB, r)
            twice == assign_reservation_for_request(once.db, r)
            over1 == update_request_status(DB, r, "scheduled")
            over2 == update_request_status(over1.db, r, "scheduled")
        IN  /\ RowsOf(r) # {} => once = [db |-> DB, ok |-> TRUE]
            /\ twice.db = once.db
            /\ once.ok => twice.ok
            /\ over2 = over1

\* A request holds a lab while another active lab of its group is free at its
\* slot: a second assignment would have a lab to take.
C5_Witness ==
    \E r \in DOMAIN reqs :
        /\ RowsOf(r) # {}
        /\ FreeLabs(GroupOf(r), reqs[r].date, reqs[r].period) # {}

\* C6: for every reservation, the group of its lab equals the resolved group
\* of its request.
C6_GroupRespect ==
    \A x \in resv :
        /\ x.request_id \in DOMAIN reqs
        /\ LabGroup[x.lab_id] = GroupOf(x.request_id)

\* A request whose preferred lab is in another group than the request holds a
\* lab of the request's group.
C6_Witness ==
    \E x \in resv :
        /\ x.request_id \in DOMAIN reqs
        /\ ClaimedPref(x.request_id) # NoLab
        /\ LabGroup[ClaimedPref(x.request_id)] # GroupOf(x.request_id)
        /\ LabGroup[x.lab_id] = GroupOf(x.request_id)

\* C7: if a request without a reservation has an effective preferred lab that
\* is active, in the request's resolved group and free at the request's slot,
\* assign binds exactly that lab.
C7_PreferenceHonored ==
    \A r \in DOMAIN reqs :
        LET pref == ClaimedPref(r)
            a == assign_reservation_for_request(DB, r)
        IN  (/\ RowsOf(r) = {}
             /\ pref \in Labs
             /\ pref \in FreeLabs(GroupOf(r), reqs[r].date, reqs[r].period))
            => /\ a.ok
               /\ a.db.resv = resv \cup {Row(pref, r, reqs[r].date, reqs[r].period, 1)}
               /\ a.db.reqs[r].status = "scheduled"

\* A request holds its effective preferred lab although a lab earlier in name
\* order is free at its slot.
C7_Witness ==
    \E x \in resv :
        /\ x.request_id \in DOMAIN reqs
        /\ x.lab_id = ClaimedPref(x.request_id)
        /\ \E l \in FreeLabs(LabGroup[x.lab_id], x.date, x.period) :
               LabName[l] < LabName[x.lab_id]

\* A preference signal: an own preferred lab or the teacher's standing one.
HasSignal(r) == ClaimedPref(r) # NoLab

\* A, created first and without a preference signal, and B, created later and
\* with one, are the only requests of the backlog for their group and slot.
Compete(A, B) ==
    /\ A \in Backlog /\ B \in Backlog
    /\ reqs[A].created_at < reqs[B].created_at
    /\ ~HasSignal(A) /\ HasSignal(B)
    /\ RowsOf(A) = {} /\ RowsOf(B) = {}
    /\ reqs[A].date = reqs[B].date /\ reqs[A].period = reqs[B].period
    /\ GroupOf(A) = GroupOf(B)
    /\ \A c \in Backlog \ {A, B} :
           ~(/\ reqs[c].date = reqs[A].date /\ reqs[c].period = reqs[A].period
             /\ GroupOf(c) = GroupOf(A))

\* C8: the batch attempts every request with a preference signal before every
\* request without one, and within each tier in ascending creation order; so
\* when A and B compete for the last free lab of a slot, B is scheduled and A
\* becomes conflict.
C8_BatchOrdering ==
    LET order == Unscheduled(DB)
        after == run_auto_schedule(DB).db
    IN  /\ Len(order) = Cardinality(Backlog)
        /\ {order[i] : i \in 1..Len(order)} = Backlog
        /\ \A i, j \in 1..Len(order) :
               i < j => \/ HasSignal(order[i]) /\ ~HasSignal(order[j])
                        \/ /\ HasSignal(order[i]) = HasSignal(order[j])
                           /\ reqs[order[i]].created_at < reqs[order[j]].created_at
        /\ \A A, B \in DOMAIN reqs :
               (/\ Compete(A, B)
                /\ Cardinality(FreeLabs(GroupOf(A), reqs[A].date, reqs[A].period)) = 1)
               => /\ after.reqs[B].status = "scheduled"
                  /\ ReservationsOf(after, B) # {}
                  /\ after.reqs[A].status = "conflict"
                  /\ ReservationsOf(after, A) = {}

\* The later request with a preference signal holds the only active lab of the
\* group at the slot, the earlier one without a signal is in conflict.
C8_Witness ==
    \E A, B \in DOMAIN reqs :
        /\ reqs[A].created_at < reqs[B].created_at
        /\ ~HasSignal(A) /\ HasSignal(B)
        /\ reqs[A].date = reqs[B].date /\ reqs[A].period = reqs[B].period
        /\ GroupOf(A) = GroupOf(B)
        /\ reqs[A].status = "conflict" /\ RowsOf(A) = {}
        /\ reqs[B].status = "scheduled" /\ RowsOf(B) # {}
        /\ FreeLabs(GroupOf(A), reqs[A].date, reqs[A].period) = {}

\* C9: for a request without a reservation, assign fails exactly when no
\* active lab of the request's resolved group is free at the request's slot
\* (a group without an active lab included); a failure reserves nothing.
C9_NoEligibleResource ==
    \A r \in DOMAIN reqs :
        LET a == assign_reservation_for_request(DB, r)
        IN  RowsOf(r) = {} =>
                /\ a.ok <=> FreeLabs(GroupOf(r), reqs[r].date, reqs[r].period) # {}
                /\ ~a.ok => a.db.resv = resv
                /\ a.ok => \E l \in FreeLabs(GroupOf(r), reqs[r].date, reqs[r].period) :
                               a.db.resv = resv \cup {Row(l, r, reqs[r].date, reqs[r].period, 1)}

\* A request is in conflict while its group has active labs, all of them
\* reserved at its slot.
C9_Witness ==
    \E r \in DOMAIN reqs :
        /\ reqs[r].status = "conflict" /\ RowsOf(r) = {}
        /\ \E l \in Labs : labActive[l] /\ LabGroup[l] = GroupOf(r)
        /\ FreeLabs(GroupOf(r), reqs[r].date, reqs[r].period) = {}

\* What a caller of assign leaves of request r: status conflict, no reservation.
MarkedConflict(db, r) == db.reqs[r].status = "conflict" /\ ReservationsOf(db, r) = {}

\* C10: whenever assign fails inside the batch, inside a status override to
\* "scheduled" or inside the startup backfill, the request's status is
\* "conflict" and it has no reservation when that operation completes.
C10_FailureIsExplicit ==
    /\ phase = "serving" =>
           LET batch == run_auto_schedule(DB)
           IN  /\ \A r \in batch.failed : MarkedConflict(batch.db, r)
               /\ \A r \in Backlog :
                      ReservationsOf(batch.db, r) = {} => MarkedConflict(batch.db, r)
    /\ phase = "serving" =>
           \A r \in DOMAIN reqs :
               LET over == update_request_status(DB, r, "scheduled")
               IN  (over.res = "NoEligibleResource" \/ ReservationsOf(over.db, r) = {})
                   => MarkedConflict(over.db, r)
    /\ phase = "boot" =>
           LET boot == ensure_reservations_for_scheduled_requests(DB)
           IN  /\ \A r \in boot.failed : MarkedConflict(boot.db, r)
               /\ \A r \in DOMAIN reqs :
                      (reqs[r].status = "scheduled" /\ ReservationsOf(boot.db, r) = {})
                      => MarkedConflict(boot.db, r)

\* The batch has work that fails and a status override that fails: a request
\* of the backlog and no free lab for it.
C10_Witness ==
    /\ phase = "serving"
    /\ run_auto_schedule(DB).failed # {}
    /\ \E r \in Backlog : update_request_status(DB, r, "scheduled").res = "NoEligibleResource"

\* C11: a batch run attempts every request that was pending or approved at its
\* start exactly once, whatever failed before it in the order: when it returns
\* no request is pending or approved, and each request of the backlog is either
\* scheduled with one reservation or in conflict with none.
C11_BatchCompleteness ==
    LET order == Unscheduled(DB)
        batch == run_auto_schedule(DB)
    IN  /\ \A r \in Backlog : Cardinality({i \in 1..Len(order) : order[i] = r}) = 1
        /\ batch.assigned \cup batch.failed = Backlog
        /\ batch.assigned \cap batch.failed = {}
        /\ DOMAIN batch.db.reqs = DOMAIN reqs
        /\ \A r \in DOMAIN reqs : batch.db.reqs[r].status \notin {"pending", "approved"}
        /\ \A r \in Backlog :
               \/ /\ batch.db.reqs[r].status = "scheduled"
                  /\ Cardinality(ReservationsOf(batch.db, r)) = 1
               \/ MarkedConflict(batch.db, r)

\* The first request of the batch order fails and the one after it is scheduled.
C11_Witness ==
    LET order == Unscheduled(DB)
        batch == run_auto_schedule(DB)
    IN  /\ phase = "serving"
        /\ Len(order) = 2
        /\ batch.db.reqs[order[1]].status = "conflict"
        /\ batch.db.reqs[order[2]].status = "scheduled"
        /\ ReservationsOf(batch.db, order[2]) # {}

\* The requests of the backlog that resolve to group g and target (d, p).
Contenders(g, d, p) ==
    {r \in Backlog : GroupOf(r) = g /\ reqs[r].date = d /\ reqs[r].period = p}

\* The active labs of group g.
ActiveOf(g) == {l \in Labs : labActive[l] /\ LabGroup[l] = g}

\* C12: for the k requests of the backlog of one group that target the same
\* (date, period), with n active labs in that group none of which is occupied
\* at that slot, one batch run leaves exactly min(k, n) of them scheduled, on
\* pairwise distinct labs, and the remaining k - min(k, n) in conflict.
C12_BatchCapacity ==
    \A g \in Groups, d \in Dates, p \in Periods :
        LET K == Contenders(g, d, p)
            k == Cardinality(K)
            n == Cardinality(ActiveOf(g))
            after == run_auto_schedule(DB).db
            S == {r \in K : after.reqs[r].status = "scheduled"}
        IN  (\A l \in ActiveOf(g) : ~Reserved(l, d, p)) =>
                /\ Cardinality(S) = Min({k, n})
                /\ \A r \in S :
                       /\ Cardinality(ReservationsOf(after, r)) = 1
                       /\ \A x \in ReservationsOf(after, r) :
                              x.lab_id \in ActiveOf(g) /\ x.date = d /\ x.period = p
                /\ \A r, q \in S : \A x \in ReservationsOf(after, r) :
                       \A y \in ReservationsOf(after, q) : r # q => x.lab_id # y.lab_id
                /\ \A r \in K \ S : MarkedConflict(after, r)

\* Three pending requests of one group for one slot and one active lab in the
\* group, free at the slot: the run schedules one and leaves two in conflict.
C12_Witness ==
    \E g \in Groups, d \in Dates, p \in Periods :
        LET K == Contenders(g, d, p)
            after == run_auto_schedule(DB).db
        IN  /\ Cardinality(K) = 3
            /\ \A r \in K : reqs[r].status = "pending"
            /\ Cardinality(ActiveOf(g)) = 1
            /\ \A l \in ActiveOf(g) : ~Reserved(l, d, p)
            /\ Cardinality({r \in K : after.reqs[r].status = "scheduled"}) = 1
            /\ Cardinality({r \in K : after.reqs[r].status = "conflict"}) = 2

\* C13: manual_assign with an active lab whose group differs from the
\* request's resolved group is rejected as GroupMismatch and changes nothing:
\* no request (status, group tag) and no reservation, the one the request
\* holds included.
C13_GroupMismatchRejected ==
    \A r \in DOMAIN reqs : \A l \in Labs :
        (labActive[l] /\ LabGroup[l] # GroupOf(r))
        => manual_assign(DB, r, l) = [db |-> DB, res |-> "GroupMismatch"]

\* A request that holds a lab is given an active lab of another group that is
\* free at its slot, and is refused.
C13_Witness ==
    \E r \in DOMAIN reqs : \E l \in Labs :
        /\ RowsOf(r) # {}
        /\ labActive[l] /\ LabGroup[l] # GroupOf(r)
        /\ ~Reserved(l, reqs[r].date, reqs[r].period)
        /\ manual_assign(DB, r, l).res = "GroupMismatch"

\* Lab l holds a reservation of another request than r at the slot of r.
TakenByOther(r, l) ==
    \E x \in resv : /\ x.lab_id = l
                     /\ x.date = reqs[r].date /\ x.period = reqs[r].period
                     /\ x.request_id # r

\* C14: manual_assign with an active lab of the request's group is rejected as
\* SlotTaken exactly when the lab has a reservation of another request at the
\* request's slot (a reservation of the request itself does not count), and a
\* SlotTaken rejection changes nothing.
C14_SlotTakenByOthersOnly ==
    \A r \in DOMAIN reqs : \A l \in Labs :
        (labActive[l] /\ LabGroup[l] = GroupOf(r))
        => /\ manual_assign(DB, r, l).res = "SlotTaken" <=> TakenByOther(r, l)
           /\ manual_assign(DB, r, l).res = "SlotTaken" => manual_assign(DB, r, l).db = DB

\* C15: manual_assign with a lab that is inactive or does not exist is
\* rejected whatever the lab's group and occupancy and changes nothing; so no
\* manual_assign adds a reservation on a lab that is inactive at that moment.
C15_InactiveRejected ==
    \A r \in DOMAIN reqs :
        /\ \A l \in Labs \cup {NoSuchLab} :
               (l \notin Labs \/ ~labActive[l])
               => manual_assign(DB, r, l) = [db |-> DB, res |-> "ResourceInactive"]
        /\ \A l \in Labs \cup {NoSuchLab} :
               \A x \in manual_assign(DB, r, l).db.resv \ resv : labActive[x.lab_id]

\* A request is given a lab that is switched off, in the request's group and
\* free at its slot, and is refused.
C15_Witness ==
    \E r \in DOMAIN reqs : \E l \in Labs :
        /\ ~labActive[l] /\ LabGroup[l] = GroupOf(r)
        /\ ~Reserved(l, reqs[r].date, reqs[r].period)
        /\ manual_assign(DB, r, l).res = "ResourceInactive"

\* C16: a successful manual_assign on a request that holds a reservation
\* replaces it: the request is scheduled with exactly one reservation, on the
\* named lab at the request's slot, the lab it held before is free at that
\* slot, and nothing else changes; the named lab is taken whatever the
\* preference and the name order say.
C16_ManualAssignReplaces ==
    \A r \in DOMAIN reqs : \A l \in Labs :
        LET m == manual_assign(DB, r, l)
        IN  (m.res = "Assigned" /\ RowsOf(r) # {})
            => /\ m.db.reqs[r].status = "scheduled"
               /\ ReservationsOf(m.db, r) = {Row(l, r, reqs[r].date, reqs[r].period, 1)}
               /\ \A x \in RowsOf(r) : \A y \in m.db.resv :
                      ~(y.lab_id = x.lab_id /\ y.date = x.date /\ y.period = x.period)
               /\ {y \in m.db.resv : y.request_id # r} = {y \in resv : y.request_id # r}
               /\ \A q \in DOMAIN reqs \ {r} : m.db.reqs[q] = reqs[q]
               /\ m.db.active = labActive

\* A request that holds a lab is moved by hand to a lab that is not its
\* preferred one and comes later in name order than the lab it leaves.
C16_Witness ==
    \E r \in DOMAIN reqs : \E l \in Labs :
        /\ RowsOf(r) # {}
        /\ manual_assign(DB, r, l).res = "Assigned"
        /\ l # ClaimedPref(r)
        /\ \E x \in RowsOf(r) : LabName[x.lab_id] < LabName[l]

\* C17: a status override of a request to pending, approved or conflict
\* destroys the reservation the request has: afterwards the request has no
\* reservation, and the lab it held is free at that slot, so that a later
\* assign of another request of that group and slot gets a lab (that very lab
\* when no other one was free).
C17_OverrideDestroysReservation ==
    \A r \in DOMAIN reqs : \A s \in {"pending", "approved", "conflict"} :
        LET u == update_request_status(DB, r, s)
        IN  RowsOf(r) # {} =>
                /\ ReservationsOf(u.db, r) = {}
                /\ u.db.reqs[r].status = s
                /\ u.db.resv = {y \in resv : y.request_id # r}
                /\ \A x \in RowsOf(r) : \A y \in u.db.resv :
                       ~(y.lab_id = x.lab_id /\ y.date = x.date /\ y.period = x.period)
                /\ \A x \in RowsOf(r) : \A q \in DOMAIN reqs \ {r} :
                       (/\ RowsOf(q) = {}
                        /\ GroupOf(q) = LabGroup[x.lab_id]
                        /\ reqs[q].date = x.date /\ reqs[q].period = x.period
                        /\ labActive[x.lab_id])
                       => LET a == assign_reservation_for_request(u.db, q)
                          IN  /\ a.ok
                              /\ FreeLabs(GroupOf(q), x.date, x.period) = {}
                                 => a.db.resv = u.db.resv
                                        \cup {Row(x.lab_id, q, x.date, x.period, 1)}

\* A request holds the last lab of its group at a slot where another request
\* is in conflict; once the first is set back to pending the second is
\* assigned the lab.
C17_Witness ==
    \E r \in DOMAIN reqs : \E q \in DOMAIN reqs \ {r} :
        /\ RowsOf(r) # {}
        /\ reqs[q].status = "conflict" /\ RowsOf(q) = {}
        /\ GroupOf(q) = GroupOf(r)
        /\ reqs[q].date = reqs[r].date /\ reqs[q].period = reqs[r].period
        /\ FreeLabs(GroupOf(q), reqs[q].date, reqs[q].period) = {}
        /\ assign_reservation_for_request(update_request_status(DB, r, "pending").db, q).ok

\* C18: deleting a teacher deletes the teacher's requests together with their
\* reservations: every reservation references an existing request in every
\* reachable state, and the deletion leaves the requests and reservations of
\* the other teachers as they were.
C18_CascadeDelete ==
    /\ \A x \in resv : x.request_id \in DOMAIN reqs
    /\ \A t \in teachers :
           LET a == admin_delete_teacher(DB, t)
               kept == {r \in DOMAIN reqs : reqs[r].teacher_id # t}
           IN  /\ DOMAIN a.reqs = kept
               /\ \A r \in kept : a.reqs[r] = reqs[r]
               /\ a.resv = {x \in resv : x.request_id \in kept}
               /\ \A x \in a.resv : x.request_id \in DOMAIN a.reqs
               /\ a.active = labActive

\* Two teachers hold a reservation each; one of the teachers is deleted.
C18_Witness ==
    \E r \in DOMAIN reqs : \E q \in DOMAIN reqs :
        /\ reqs[r].teacher_id # reqs[q].teacher_id
        /\ RowsOf(r) # {} /\ RowsOf(q) # {}
        /\ reqs[r].teacher_id \in teachers
        /\ admin_delete_teacher(DB, reqs[r].teacher_id).resv = RowsOf(q)

\* C19: ai_explain_conflict_and_suggest is read-only: it changes no request
\* (status, group tag), no reservation and no lab, so a call put anywhere
\* between scheduling operations changes neither the state reached nor what a
\* later assign, batch run or manual_assign does; a repeated call returns the
\* same answer.
C19_ExplainReadOnly ==
    /\ \A r \in 1..MaxReq :
           \A day_window \in 0..1, top_k \in {1, ApiTopK} :
               ai_explain_conflict_and_suggest(DB, r, MaxPeriod, day_window, top_k).db = DB
    /\ \A r \in 1..MaxReq :
           LET after == ai_explain_conflict_and_suggest(DB, r, MaxPeriod, 1, ApiTopK).db
           IN  /\ after.reqs = reqs /\ after.resv = resv /\ after.active = labActive
               /\ ai_explain_conflict_and_suggest(after, r, MaxPeriod, 1, ApiTopK).out
                      = ai_explain_conflict_and_suggest(DB, r, MaxPeriod, 1, ApiTopK).out
               /\ run_auto_schedule(after) = run_auto_schedule(DB)
               /\ \A q \in DOMAIN reqs :
                      /\ assign_reservation_for_request(after, q)
                             = assign_reservation_for_request(DB, q)
                      /\ \A l \in Labs : manual_assign(after, q, l) = manual_assign(DB, q, l)

\* The explainer resolves a group for a request in conflict that has no group
\* tag, reports who occupies its slot and suggests other slots.
C19_Witness ==
    /\ phase = "serving"
    /\ \E r \in DOMAIN reqs :
           LET e == ai_explain_conflict_and_suggest(DB, r, ApiMaxPeriod, ApiDayWindow, ApiTopK)
           IN  /\ reqs[r].lab_group = NoGroup
               /\ reqs[r].status = "conflict"
               /\ e.out.ok
               /\ e.out.req.lab_group # NoGroup
               /\ e.out.occupied # {}
               /\ Len(e.out.suggestions) = ApiTopK

\* The distance of date d from d0, in days.
Distance(d, d0) == IF d >= d0 THEN d - d0 ELSE d0 - d

\* The (date, period) pairs around request r that are looked at: dates within
\* day_window days, periods 1..max_period, the slot of r itself left out.
Neighbourhood(r, max_period, day_window) ==
    {c \in [date : (reqs[r].date - day_window)..(reqs[r].date + day_window),
            period : 1..max_period] :
        ~(c.date = reqs[r].date /\ c.period = reqs[r].period)}

\* The candidates that qualify: an active lab of the group of r is free there.
Qualifying(r, max_period, day_window) ==
    {c \in Neighbourhood(r, max_period, day_window) :
        FreeLabs(GroupOf(r), c.date, c.period) # {}}

\* The scan order: nearer dates first, the earlier date before the later one
\* at equal distance, and periods ascending within a date.
ScannedBefore(a, b, d0) ==
    \/ Distance(a.date, d0) < Distance(b.date, d0)
    \/ Distance(a.date, d0) = Distance(b.date, d0) /\ a.date < b.date
    \/ a.date = b.date /\ a.period < b.period

ScannedUpTo(r, c, max_period, day_window) ==
    {b \in Neighbourhood(r, max_period, day_window) :
        b = c \/ ScannedBefore(b, c, reqs[r].date)}

\* C21: for every top_k >= 0 (0 included) and every day_window and max_period
\* the explainer returns at most top_k suggestions, and it stops scanning as
\* soon as top_k qualifying candidates are collected: no candidate is looked
\* at after the top_k-th suggestion, and none at all when top_k is 0.
C21_AtMostTopK ==
    \A r \in DOMAIN reqs :
        \A max_period \in 0..MaxPeriod, day_window \in 0..MaxDayWindow, top_k \in 0..MaxTopK :
            LET sugg == ai_explain_conflict_and_suggest(DB, r, max_period, day_window,
                                                        top_k).out.suggestions
                examined == Examined(DB, r, max_period, day_window, top_k)
                At(i) == [date |-> sugg[i].date, period |-> sugg[i].period]
            IN  /\ Len(sugg) <= top_k
                /\ top_k = 0 => examined = 0
                /\ (top_k >= 1 /\ Len(sugg) = top_k)
                   => examined = Cardinality(ScannedUpTo(r, At(top_k), max_period, day_window))

\* C22: the explainer is complete within its neighbourhood: when exactly one
\* (date, period) other than the request's own, with the date within
\* day_window days and the period in 1..max_period, has a free active lab of
\* the group, the list for top_k >= 1 is exactly that one entry; and whenever
\* fewer than top_k suggestions are returned, every qualifying candidate of
\* the neighbourhood is in the list.
C22_ExplainComplete ==
    \A r \in DOMAIN reqs :
        \A max_period \in 0..MaxPeriod, day_window \in 0..MaxDayWindow, top_k \in 0..MaxTopK :
            LET sugg == ai_explain_conflict_and_suggest(DB, r, max_period, day_window,
                                                        top_k).out.suggestions
                listed == {[date |-> sugg[i].date, period |-> sugg[i].period] :
                              i \in 1..Len(sugg)}
                Q == Qualifying(r, max_period, day_window)
            IN  /\ (top_k >= 1 /\ Cardinality(Q) = 1) => (Len(sugg) = 1 /\ listed = Q)
                /\ Len(sugg) < top_k => listed = Q

\* Scenario 3 with day_window 1: the request's other period, both periods of
\* the day before and period 1 of the day after are occupied, and the one
\* suggestion is (day after, period 2).
C22_Witness ==
    \E r \in DOMAIN reqs :
        LET sugg == ai_explain_conflict_and_suggest(DB, r, 2, 1, 1).out.suggestions
        IN  /\ Qualifying(r, 2, 1) = {[date |-> reqs[r].date + 1, period |-> 2]}
            /\ Cardinality(Neighbourhood(r, 2, 1)) = 5
            /\ Len(sugg) = 1
            /\ sugg[1].date = reqs[r].date + 1 /\ sugg[1].period = 2

\* C23: run_auto_schedule returns {assignedCount, conflictCount}:
\* assignedCount is the number of requests the run moved to scheduled,
\* conflictCount the number it moved to conflict, and the two sum to the
\* number of pending or approved requests at the start of the run.
C23_ReturnsCounts ==
    LET run == run_auto_schedule(DB)
        moved(s) == {r \in Backlog : run.db.reqs[r].status = s}
    IN  /\ run.ret.kind = "counts"
        /\ run.ret.assignedCount = Cardinality(moved("scheduled"))
        /\ run.ret.conflictCount = Cardinality(moved("conflict"))
        /\ run.ret.assignedCount + run.ret.conflictCount = Cardinality(Backlog)

C25_NearerPeriodFirst ==
    \A r \in DOMAIN reqs :
        \A max_period \in 0..MaxPeriod, day_window \in 0..MaxDayWindow, top_k \in 0..MaxTopK :
            LET sugg == ai_explain_conflict_and_suggest(DB, r, max_period, day_window,
                                                        top_k).out.suggestions
            IN  \A i, j \in 1..Len(sugg) :
                    (i < j /\ sugg[i].date = sugg[j].date)
                        => Distance(sugg[i].period, reqs[r].period)
                               <= Distance(sugg[j].period, reqs[r].period)

\* C26 as stated: the explainer terminates and the number of (date, period)
\* candidates it examines is at most day_window * max_period.
C26_WithinWindowTimesPeriods ==
    \A r \in DOMAIN reqs :
        \A day_window \in 0..1, top_k \in {0, ApiTopK} :
            Examined(DB, r, MaxPeriod, day_window, top_k) <= day_window * MaxPeriod

\* C26: the explainer terminates for every day_window, max_period and top_k,
\* also when the group has no active lab or no candidate qualifies, and the
\* number of (date, period) candidates it examines is at most the size of
\* the neighbourhood, (2 * day_window + 1) * max_period less the request's
\* own slot; when nothing qualifies and top_k >= 1 it examines them all.
C26_ExaminedBound ==
    \A r \in DOMAIN reqs :
        \A day_window \in 0..1, top_k \in {0, ApiTopK} :
            LET examined == Examined(DB, r, MaxPeriod, day_window, top_k)
                N == Neighbourhood(r, MaxPeriod, day_window)
            IN  /\ examined \in 0..Cardinality(N)
                /\ Cardinality(N) = (2 * day_window + 1) * MaxPeriod - 1
                /\ (top_k >= 1 /\ Qualifying(r, MaxPeriod, day_window) = {})
                       => examined = Cardinality(N)

\* The group of a request has no active lab: with a window of one day all
\* five candidates are examined, and with a window of zero days one is.
C26_Witness ==
    \E r \in DOMAIN reqs :
        /\ ActiveOf(GroupOf(r)) = {}
        /\ Examined(DB, r, MaxPeriod, 1, ApiTopK) = 5
        /\ Examined(DB, r, MaxPeriod, 0, ApiTopK) = 1

\* Whether a preferred-lab reference is set and leads to a lab with a group.
Resolvable(l) == l # NoLab /\ l \in Labs /\ LabGroup[l] # NoGroup

\* The standing preferred lab of the teacher of request r, NoLab without one.
StandingPref(r) ==
    IF reqs[r].teacher_id \in teachers THEN TeacherPref[reqs[r].teacher_id] ELSE NoLab

\* C27: the resolver always returns a non-empty group and follows the
\* priority chain, first match wins: the request's own group tag if set; else
\* the group of the request's preferred lab if set and resolvable; else the
\* group of the teacher's standing preferred lab if set and resolvable; else
\* the default group.  Resolving mutates nothing: a manual assignment, which
\* resolves and does not persist, leaves the group tag of the row as it was.
C27_ResolverChain ==
    \A r \in DOMAIN reqs :
        LET req == reqs[r]
            g == infer_req_group(DB, req)
        IN  /\ g # NoGroup
            /\ g = IF req.lab_group # NoGroup THEN req.lab_group
                   ELSE IF Resolvable(req.preferred_lab_id)
                        THEN LabGroup[req.preferred_lab_id]
                   ELSE IF Resolvable(StandingPref(r)) THEN LabGroup[StandingPref(r)]
                   ELSE DefaultGroup
            /\ \A l \in Labs \cup {NoSuchLab} :
                   manual_assign(DB, r, l).db.reqs[r].lab_group = req.lab_group

\* A row without group tag whose own preferred lab is gone and whose teacher
\* prefers the lab of the other group: the resolver falls through to the
\* teacher's preference, and a manual assignment to that lab, made by the
\* resolved group, leaves the row untagged.
C27_Witness ==
    \E r \in DOMAIN reqs :
        /\ reqs[r].lab_group = NoGroup
        /\ reqs[r].preferred_lab_id = NoSuchLab
        /\ Resolvable(StandingPref(r))
        /\ infer_req_group(DB, reqs[r]) = OtherGroup
        /\ RowsOf(r) # {}
        /\ reqs[r].status = "scheduled"

\* What the resolver returns for request r of store db once its own preferred
\* lab reads pref and its teacher is one whose standing preference is that
\* of account t.
ResolvedAfterEdit(db, r, pref, t) ==
    infer_req_group(db, [db.reqs[r] EXCEPT !.preferred_lab_id = pref, !.teacher_id = t])

\* C28: when the allocator runs on a request without reservation it writes
\* the resolved group onto the request, whether the assignment then succeeds
\* or fails; afterwards the resolver returns that same group on every later
\* call, even if the request's or the teacher's preferred lab is changed in
\* between: the resolver gives the persisted group under every preference,
\* and no handler changes a group tag once it is set.
C28_GroupPersisted ==
    /\ [](\A r \in DOMAIN reqs :
              RowsOf(r) = {} =>
                  LET g == infer_req_group(DB, reqs[r])
                      a == assign_reservation_for_request(DB, r)
                  IN  /\ a.db.reqs[r].lab_group = g
                      /\ \A pref \in Labs \cup {NoLab, NoSuchLab}, t \in Accounts :
                             ResolvedAfterEdit(a.db, r, pref, t) = g)
    /\ [][\A r \in DOMAIN reqs \cap DOMAIN reqs' :
              reqs[r].lab_group # NoGroup => reqs'[r].lab_group = reqs[r].lab_group]_vars

\* An untagged request that prefers the lab of the other group while that
\* lab is switched off: the assignment fails, the row is tagged with the
\* other group all the same, and it still resolves to that group once it
\* prefers a lab of the default group.
C28_Witness ==
    \E r \in DOMAIN reqs :
        LET a == assign_reservation_for_request(DB, r)
        IN  /\ RowsOf(r) = {}
            /\ reqs[r].lab_group = NoGroup
            /\ Resolvable(reqs[r].preferred_lab_id)
            /\ LabGroup[reqs[r].preferred_lab_id] = OtherGroup
            /\ ActiveOf(OtherGroup) = {}
            /\ ~a.ok
            /\ a.db.reqs[r].lab_group = OtherGroup
            /\ \E l \in Labs, t \in Accounts :
                   /\ LabGroup[l] = DefaultGroup /\ TeacherPref[t] = l
                   /\ ResolvedAfterEdit(a.db, r, l, t) = OtherGroup

\* C29: when the preference pass chooses nothing (no effective preference, or
\* the preferred lab is inactive, out of group or occupied), the allocator
\* binds the first lab in ascending name order among the active labs of the
\* request's group that are unoccupied at the request's (date, period); the
\* choice is a function of the state: the one row added is on that lab.
C29_FallbackFirstByName ==
    \A r \in DOMAIN reqs :
        LET F == FreeLabs(GroupOf(r), reqs[r].date, reqs[r].period)
            first == CHOOSE l \in F : \A m \in F : LabName[l] <= LabName[m]
            a == assign_reservation_for_request(DB, r)
        IN  (RowsOf(r) = {} /\ ClaimedPref(r) \notin F /\ F # {})
                => /\ a.ok
                   /\ \A l, m \in F : LabName[l] = LabName[m] => l = m
                   /\ \E x \in a.db.resv :
                          /\ a.db.resv \ resv = {x}
                          /\ x.request_id = r /\ x.lab_id = first
                          /\ x.date = reqs[r].date /\ x.period = reqs[r].period

\* A request without effective preference while both labs of its group are
\* free: the lab bound is the one of the lower name, which has the higher id.
C29_Witness ==
    \E r \in DOMAIN reqs :
        LET F == FreeLabs(GroupOf(r), reqs[r].date, reqs[r].period)
            a == assign_reservation_for_request(DB, r)
        IN  /\ RowsOf(r) = {}
            /\ ClaimedPref(r) = NoLab
            /\ Cardinality(F) = 2
            /\ \E x \in a.db.resv \ resv :
                   \E l \in F : l < x.lab_id /\ LabName[x.lab_id] < LabName[l]

\* C30: the batch is a one-pass greedy without reassignment: it never deletes
\* an existing reservation or changes its lab, date or period, and never
\* changes the status of a request that was already scheduled at the start of
\* the run, even when a request of the backlog finds every lab of its group
\* taken at its slot.
C30_NoReassignment ==
    LET run == run_auto_schedule(DB)
    IN  /\ resv \subseteq run.db.resv
        /\ \A x \in run.db.resv \ resv : x.request_id \in Backlog
        /\ \A r \in DOMAIN reqs :
               reqs[r].status = "scheduled" => run.db.reqs[r] = reqs[r]

\* A scheduled request holds the only active lab of a group at a slot that a
\* request of the backlog, of the same group, asks for: after the run the
\* reservation stands as it was and the other request is in conflict.
C30_Witness ==
    LET run == run_auto_schedule(DB)
    IN  \E q \in DOMAIN reqs, r \in Backlog :
            /\ reqs[q].status = "scheduled"
            /\ GroupOf(q) = GroupOf(r)
            /\ reqs[q].date = reqs[r].date /\ reqs[q].period = reqs[r].period
            /\ \E x \in RowsOf(q) : ActiveOf(GroupOf(r)) = {x.lab_id}
            /\ RowsOf(r) = {}
            /\ RowsOf(q) \subseteq run.db.resv
            /\ run.db.reqs[r].status = "conflict"

\* C31: in every reachable state, the date and the period of every
\* reservation equal the date and the period of the request it references.
C31_ReservationCopiesSlot ==
    \A x \in resv :
        x.request_id \in DOMAIN reqs
            => /\ x.date = reqs[x.request_id].date
               /\ x.period = reqs[x.request_id].period

\* Two requests of different dates and different periods both hold a
\* reservation, each at its own date and period.
C31_Witness ==
    \E x, y \in resv :
        /\ x.request_id \in DOMAIN reqs /\ y.request_id \in DOMAIN reqs
        /\ x.request_id # y.request_id
        /\ reqs[x.request_id].date # reqs[y.request_id].date
        /\ reqs[x.request_id].period # reqs[y.request_id].period
        /\ x.date = reqs[x.request_id].date /\ x.period = reqs[x.request_id].period
        /\ y.date = reqs[y.request_id].date /\ y.period = reqs[y.request_id].period

\* The statuses that block a further submission for the slot.
Live(r) == reqs[r].status \in {"pending", "approved", "scheduled"}

\* C32: a submission is rejected when the same teacher already has a request
\* in status pending, approved or scheduled for the same (date, period); and
\* over every sequence of submissions, batch runs, status overrides and
\* manual assignments, no teacher holds two requests in status pending,
\* approved or scheduled for the same (date, period).
C32_OneLiveRequestPerSlot ==
    /\ \A r \in DOMAIN reqs :
           Live(r) => \A g \in Groups \cup {NoGroup}, pref \in Labs \cup {NoLab} :
                          new_request(DB, reqs[r].teacher_id, g, pref,
                                      reqs[r].date, reqs[r].period).db = DB
    /\ \A r, q \in DOMAIN reqs :
           (/\ r # q
            /\ reqs[r].teacher_id = reqs[q].teacher_id
            /\ reqs[r].date = reqs[q].date /\ reqs[r].period = reqs[q].period)
               => ~(Live(r) /\ Live(q))

\* C33: a request in status conflict is never attempted by the batch: any
\* number of batch runs leave its status and its (absent) reservation
\* unchanged, even after a lab of its group has become free at its slot; it
\* leaves conflict only through a status override or a manual assignment.
C33_ConflictIsSticky ==
    /\ [](\A r \in DOMAIN reqs :
              reqs[r].status = "conflict" =>
                  LET once == run_auto_schedule(DB).db
                      twice == run_auto_schedule(once).db
                  IN  /\ RowsOf(r) = {}
                      /\ once.reqs[r] = reqs[r] /\ twice.reqs[r] = reqs[r]
                      /\ \A x \in once.resv \cup twice.resv : x.request_id # r)
    /\ [][\A r \in DOMAIN reqs \cap DOMAIN reqs' :
              (reqs[r].status = "conflict" /\ reqs'[r].status # "conflict")
                  => \/ \E s \in Statuses : DoUpdateRequestStatus(r, s)
                     \/ \E l \in Labs : DoManualAssign(r, l)]_vars

\* A request is in conflict while an active lab of its group is free at its
\* slot, and a batch run places another request and passes this one over.
C33_Witness ==
    \E r \in DOMAIN reqs :
        LET run == run_auto_schedule(DB)
        IN  /\ reqs[r].status = "conflict"
            /\ FreeLabs(GroupOf(r), reqs[r].date, reqs[r].period) # {}
            /\ run.assigned # {}
            /\ FreeLabs(GroupOf(r), reqs[r].date, reqs[r].period) \ {x.lab_id : x \in run.db.resv} # {}
            /\ run.db.reqs[r].status = "conflict"
            /\ \A x \in run.db.resv : x.request_id # r

\* C34: the teacher's standing preferred lab is consulted by the allocator
\* only when the request's own preferred lab is unset: if the request's own
\* preferred lab is set but inactive, out of group or occupied, the allocator
\* goes directly to the first free lab by name, even when the teacher's
\* standing preferred lab is active, in the group and free; with no own
\* preference, that standing preferred lab is the one bound.
C34_StandingPrefOnlyWhenUnset ==
    \A r \in DOMAIN reqs :
        LET F == FreeLabs(GroupOf(r), reqs[r].date, reqs[r].period)
            first == CHOOSE l \in F : \A m \in F : LabName[l] <= LabName[m]
            own == reqs[r].preferred_lab_id
            a == assign_reservation_for_request(DB, r)
            bound == {x.lab_id : x \in a.db.resv \ resv}
        IN  RowsOf(r) = {} =>
                /\ (own # NoLab /\ own \notin F /\ F # {}) => bound = {first}
                /\ (own # NoLab /\ own \notin F /\ F = {}) => bound = {}
                /\ (own = NoLab /\ StandingPref(r) \in F) => bound = {StandingPref(r)}

\* The request's own preferred lab is of another group than the request,
\* the teacher's standing preferred lab is active, in the group and free, and
\* yet the lab bound is the other free lab of the group, the first by name.
C34_Witness ==
    \E r \in DOMAIN reqs :
        LET F == FreeLabs(GroupOf(r), reqs[r].date, reqs[r].period)
            own == reqs[r].preferred_lab_id
            a == assign_reservation_for_request(DB, r)
        IN  /\ RowsOf(r) = {}
            /\ own \in Labs /\ LabGroup[own] # GroupOf(r)
            /\ StandingPref(r) \in F
            /\ \E x \in a.db.resv \ resv :
                   /\ x.lab_id \in F
                   /\ x.lab_id # StandingPref(r)
                   /\ LabName[x.lab_id] < LabName[StandingPref(r)]

\* C35: when a batch run, with no other operation interleaved, returns, then
\* for every request the run set to conflict every active lab of that
\* request's group has a reservation at the request's (date, period): the run
\* never leaves a request in conflict while an eligible lab is free at its
\* slot.
C35_ConflictMeansFull ==
    LET run == run_auto_schedule(DB)
    IN  \A r \in Backlog :
            run.db.reqs[r].status = "conflict" =>
                \A l \in Labs :
                    (run.db.active[l]
                     /\ LabGroup[l] = infer_req_group(run.db, run.db.reqs[r]))
                        => \E x \in run.db.resv : /\ x.lab_id = l
                                                  /\ x.date = reqs[r].date
                                                  /\ x.period = reqs[r].period

\* Three requests of the backlog ask for one slot of a group of two active
\* labs, both free: the run fills both labs and sets the third request to
\* conflict.
C35_Witness ==
    LET run == run_auto_schedule(DB)
    IN  \E r \in Backlog :
            /\ run.db.reqs[r].status = "conflict"
            /\ Cardinality(ActiveOf(GroupOf(r))) = 2
            /\ FreeLabs(GroupOf(r), reqs[r].date, reqs[r].period) = ActiveOf(GroupOf(r))
            /\ \A l \in ActiveOf(GroupOf(r)) :
                   \E x \in run.db.resv \ resv : /\ x.lab_id = l
                                                  /\ x.date = reqs[r].date
                                                  /\ x.period = reqs[r].period

\* The reservation rows on lab l in a set of rows.
RowsOn(l, rows) == {x \in rows : x.lab_id = l}

\* C36: deactivating a lab leaves its existing reservations and the
\* scheduled status of the requests bound to it unchanged, and from then
\* until it is reactivated no allocation, batch run or manual assignment
\* creates a new reservation on it, even when it is a request's or a
\* teacher's preferred lab.
C36_InactiveLabFrozen ==
    /\ [](\A l \in Labs :
              /\ labActive[l] =>
                     LET off == admin_toggle_lab(DB, l)
                     IN  ~off.active[l] /\ off.resv = resv /\ off.reqs = reqs
              /\ ~labActive[l] =>
                     /\ RowsOn(l, run_auto_schedule(DB).db.resv) \subseteq resv
                     /\ \A r \in DOMAIN reqs :
                            /\ RowsOn(l, assign_reservation_for_request(DB, r).db.resv)
                                   \subseteq resv
                            /\ RowsOn(l, update_request_status(DB, r, "scheduled").db.resv)
                                   \subseteq resv
                            /\ \A m \in Labs :
                                   RowsOn(l, manual_assign(DB, r, m).db.resv) \subseteq resv)
    /\ [][\A l \in Labs : ~labActive[l] => RowsOn(l, resv') \subseteq resv]_vars

\* A lab is switched off while a scheduled request holds a reservation on
\* it; another request names it as its own preferred lab: the allocator
\* binds that request to another lab and a manual assignment to the lab is
\* refused.
C36_Witness ==
    \E l \in Labs, q \in DOMAIN reqs :
        LET a == assign_reservation_for_request(DB, q)
        IN  /\ ~labActive[l]
            /\ \E x \in RowsOn(l, resv) : /\ x.request_id \in DOMAIN reqs
                                          /\ reqs[x.request_id].status = "scheduled"
            /\ reqs[q].preferred_lab_id = l
            /\ RowsOf(q) = {}
            /\ a.ok
            /\ \E x \in a.db.resv \ resv : x.lab_id # l
            /\ manual_assign(DB, q, l).db = DB

=============================================================================
